---- MODULE Spec2Model ----
(***************************************************************************)
(* A model of tbmc_prospecting.py: the competition table loader, the       *)
(* fetcher, the heuristic winner extractor and the CSV sink, together with *)
(* main's loop over the competition rows.                                  *)
(*                                                                         *)
(* Strings are TLA+ strings, read character by character, so that the      *)
(* regular expressions of the source are modelled by what they match.  A   *)
(* page is the tree BeautifulSoup builds, kept as the sequence of its      *)
(* nodes in document order, each node naming its parent.                   *)
(***************************************************************************)
EXTENDS Integers, Sequences, FiniteSets, TLC

VARIABLES
    html,          \* extract_basic_info: the html_content argument
    prospects,     \* extract_basic_info: the list returned
    emitted,       \* for each record of prospects, the node it was made from
    xcomp,         \* extract_basic_info: the competition_name argument
    xpc,           \* extract_basic_info: "idle", "call", "returned"
    ledger,        \* the output file tbmc_prospects.csv: absent, or its rows
    calls,         \* the prospect lists save_prospects_to_csv was given
    ledgerLog,     \* the ledger after each call of save_prospects_to_csv
    web,           \* the responses the competition sites can give
    fs,            \* the source table file: absent, or its rows
    readResult,    \* what read_competition_csv gave its caller
    tableRead,     \* main: the source table file as read_competition_csv found it
    competitions,  \* main: the in-memory list of row dicts
    idx,           \* main: number of competition rows the loop has done
    fetchLog,      \* main: per row done, the outcome of its fetch
    pc             \* main: "start", "loop", "done", or the exception that ended it

xvars == <<html, xcomp, prospects, emitted, xpc>>
svars == <<ledger, calls, ledgerLog>>
lvars == <<fs, readResult>>
mvars == <<web, tableRead, competitions, idx, fetchLog, pc>>
vars == <<xvars, svars, lvars, mvars>>

(***************************************************************************)
(* Characters and strings                                                  *)
(***************************************************************************)
Ch(s, i) == SubSeq(s, i, i)

UpperChars == "ABCDEFGHIJKLMNOPQRSTUVWXYZ"
LowerChars == "abcdefghijklmnopqrstuvwxyz"
DigitChars == "0123456789"

CharsOf(s) == {Ch(s, i) : i \in 1..Len(s)}

\* re.I: letters compare by their lower-case form
LowerOf == [c \in CharsOf(UpperChars) |->
              Ch(LowerChars, CHOOSE i \in 1..Len(UpperChars) : Ch(UpperChars, i) = c)]
Lower(c) == IF c \in DOMAIN LowerOf THEN LowerOf[c] ELSE c

RECURSIVE LowerStr(_)
LowerStr(s) == IF Len(s) = 0 THEN "" ELSE Lower(Ch(s, 1)) \o LowerStr(Tail(s))

\* the class \w of re (ASCII letters, digits, underscore) and the class \d
WordChars == CharsOf(UpperChars) \cup CharsOf(LowerChars) \cup CharsOf(DigitChars) \cup {"_"}
IsWord(c) == c \in WordChars
IsDigit(c) == c \in CharsOf(DigitChars)

\* str.strip(): whitespace is removed at both ends
IsSpace(c) == c \in {" ", "\n", "\t"}

RECURSIVE lstrip(_)
lstrip(s) == IF Len(s) > 0 /\ IsSpace(Ch(s, 1)) THEN lstrip(Tail(s)) ELSE s

RECURSIVE rstrip(_)
rstrip(s) ==
    IF Len(s) > 0 /\ IsSpace(Ch(s, Len(s))) THEN rstrip(SubSeq(s, 1, Len(s) - 1)) ELSE s

strip(s) == rstrip(lstrip(s))

\* the literal kw is in the lower-cased text low at position i
LitAt(low, i, kw) ==
    /\ i >= 1
    /\ i + Len(kw) - 1 <= Len(low)
    /\ SubSeq(low, i, i + Len(kw) - 1) = kw

\* re.search(kw1|kw2|..., text, re.I) finds something
SearchAny(kws, text) ==
    LET low == LowerStr(text)
    IN  \E kw \in kws : \E i \in 1..Len(low) : LitAt(low, i, kw)

\* the end of the longest run of \w characters that starts at i (i - 1 when none)
RECURSIVE WordEnd(_, _)
WordEnd(text, i) ==
    IF i <= Len(text) /\ IsWord(Ch(text, i)) THEN WordEnd(text, i + 1) ELSE i - 1

\* \b at the gap before position i
Boundary(text, i) ==
    LET before == i > 1 /\ i - 1 <= Len(text) /\ IsWord(Ch(text, i - 1))
        after  == i >= 1 /\ i <= Len(text) /\ IsWord(Ch(text, i))
    IN  before # after

Least(S) == CHOOSE j \in S : \A k \in S : j <= k

WinnerWords == {"winner", "award", "prize"}
NotNameWords == {"winner", "award", "prize", "about"}
SchoolWords == {"university", "college", "school"}
YearNouns == <<"freshman", "sophomore", "junior", "senior">>
YearDigits == 4

\* the length of the match of (freshman|sophomore|junior|senior|\b\d{4}\b) at i, 0 when none
YearLenAt(low, i) ==
    LET nouns == {n \in 1..Len(YearNouns) : LitAt(low, i, YearNouns[n])}
    IN  IF nouns # {} THEN Len(YearNouns[Least(nouns)])
        ELSE IF /\ i + YearDigits - 1 <= Len(low)
                /\ \A k \in 0..(YearDigits - 1) : IsDigit(Ch(low, i + k))
                /\ Boundary(low, i)
                /\ Boundary(low, i + YearDigits)
             THEN YearDigits
             ELSE 0

\* year_match.group(0) of re.search, "" when the search finds nothing
YearMatch(text) ==
    LET low  == LowerStr(text)
        hits == {i \in 1..Len(low) : YearLenAt(low, i) > 0}
    IN  IF hits = {} THEN ""
        ELSE SubSeq(text, Least(hits), Least(hits) + YearLenAt(low, Least(hits)) - 1)

\* major(ing)? in (\w+) at i: where group 2 starts, 0 when the alternative fails
MajorInAt(low, i) ==
    LET long  == i + Len("majoring in ")
        short == i + Len("major in ")
    IN  IF LitAt(low, i, "majoring in ") /\ WordEnd(low, long) >= long THEN long
        ELSE IF LitAt(low, i, "major in ") /\ WordEnd(low, short) >= short THEN short
        ELSE 0

\* (\w+) major at i: the greedy group 3 must end just before " major"
WordMajorAt(low, i) ==
    /\ WordEnd(low, i) >= i
    /\ LitAt(low, WordEnd(low, i) + 1, " major")

\* major_match.group(2) if it is set, else group(3); "" when the search finds nothing
MajorMatch(text) ==
    LET low  == LowerStr(text)
        hits == {i \in 1..Len(low) : MajorInAt(low, i) > 0 \/ WordMajorAt(low, i)}
    IN  IF hits = {} THEN ""
        ELSE LET i == Least(hits)
                 g == MajorInAt(low, i)
             IN  IF g > 0 THEN SubSeq(text, g, WordEnd(text, g))
                 ELSE SubSeq(text, i, WordEnd(text, i))

(***************************************************************************)
(* The page tree.  A page is a sequence of nodes in document order.  A     *)
(* node is a tag (kind "tag": its name, its class attribute, "" when it    *)
(* has none, and in text the string it starts with, "" when it starts with *)
(* a child tag or is empty) or a string between tags (kind "str").  parent *)
(* is the index of the enclosing tag, 0 for the top of the page.           *)
(***************************************************************************)
Tag(name, class, text, parent) ==
    [kind |-> "tag", name |-> name, class |-> class, text |-> text, parent |-> parent]
Str(text, parent) ==
    [kind |-> "str", name |-> "", class |-> "", text |-> text, parent |-> parent]

\* html_content: None, or the text of the response as the tree html.parser builds
NoContent == [absent |-> TRUE, doc |-> <<>>]
Markup(doc) == [absent |-> FALSE, doc |-> doc]
\* "not html_content": None and the empty string are false
Falsy(h) == h.absent \/ h.doc = <<>>

\* the elements of a finite set of numbers, in increasing order
RECURSIVE Ordered(_)
Ordered(S) ==
    IF S = {} THEN <<>>
    ELSE LET m == CHOOSE x \in S : \A y \in S : x <= y
         IN  <<m>> \o Ordered(S \ {m})

RECURSIVE Flatten(_)
Flatten(ss) == IF ss = <<>> THEN <<>> ELSE Head(ss) \o Flatten(Tail(ss))

Take(s, n) == SubSeq(s, 1, IF Len(s) < n THEN Len(s) ELSE n)

RECURSIVE Inside(_, _, _)
\* node i lies inside node a
Inside(doc, i, a) ==
    /\ doc[i].parent # 0
    /\ (doc[i].parent = a \/ Inside(doc, doc[i].parent, a))

Children(doc, i) == {j \in 1..Len(doc) : doc[j].parent = i}

RECURSIVE JoinText(_, _)
JoinText(doc, is) == IF is = <<>> THEN "" ELSE doc[Head(is)].text \o JoinText(doc, Tail(is))

\* elem.get_text(): every string of the subtree, in document order
get_text(doc, i) ==
    JoinText(doc, Ordered({i} \cup {j \in 1..Len(doc) : Inside(doc, j, i)}))

RECURSIVE StringOf(_, _)
\* Tag.string: <<s>>, or <<>> for None (a tag with no or several children)
StringOf(doc, i) ==
    IF doc[i].kind = "str" THEN <<doc[i].text>>
    ELSE LET kids == Children(doc, i)
         IN  IF doc[i].text # "" /\ kids = {} THEN <<doc[i].text>>
             ELSE IF doc[i].text = "" /\ Cardinality(kids) = 1
                  THEN StringOf(doc, CHOOSE k \in kids : TRUE)
                  ELSE <<>>

SectionTags == {"div", "section", "article"}
HeadingTags == {"h1", "h2", "h3", "h4"}
NameTags == {"h3", "h4", "strong", "b"}
NameLimit == 5
MinNameLen == 3

\* soup.find_all(['div', 'section', 'article'], class_=re.compile(..., re.I))
ClassSections(doc) ==
    Ordered({i \in 1..Len(doc) :
        /\ doc[i].kind = "tag"
        /\ doc[i].name \in SectionTags
        /\ SearchAny(WinnerWords, doc[i].class)})

\* soup.find_all(['h1', 'h2', 'h3', 'h4'], string=re.compile(..., re.I))
WinnerHeadings(doc) ==
    Ordered({i \in 1..Len(doc) :
        /\ doc[i].kind = "tag"
        /\ doc[i].name \in HeadingTags
        /\ StringOf(doc, i) # <<>>
        /\ SearchAny(WinnerWords, StringOf(doc, i)[1])})

RECURSIVE find_parent(_, _)
\* heading.find_parent(['div', 'section', 'article']): 0 for None
find_parent(doc, i) ==
    LET p == doc[i].parent
    IN  IF p = 0 THEN 0
        ELSE IF doc[p].name \in SectionTags THEN p
        ELSE find_parent(doc, p)

RECURSIVE HeadingSections(_, _)
HeadingSections(doc, hs) ==
    IF hs = <<>> THEN <<>>
    ELSE (IF find_parent(doc, Head(hs)) # 0 THEN <<find_parent(doc, Head(hs))>> ELSE <<>>)
         \o HeadingSections(doc, Tail(hs))

\* every container is taken for a winner section, whatever its class
winner_sectionsAnyClass(doc) ==
    Ordered({i \in 1..Len(doc) : doc[i].kind = "tag" /\ doc[i].name \in SectionTags})

\* winner_sections after lines 47-55
winner_sections(doc) ==
    IF ClassSections(doc) # <<>> THEN ClassSections(doc)
    ELSE HeadingSections(doc, WinnerHeadings(doc))

\* section.find_all(['h3', 'h4', 'strong', 'b'], limit=5)
names(doc, section) ==
    Take(Ordered({j \in 1..Len(doc) :
            /\ Inside(doc, j, section)
            /\ doc[j].kind = "tag"
            /\ doc[j].name \in NameTags}),
         NameLimit)

\* name = name_elem.get_text().strip()
NameOf(doc, e) == strip(get_text(doc, e))

\* line 65 with "len(name) <= 3" for "len(name) < 3"
LikelyNameOffByOne(name) == ~(Len(name) <= MinNameLen \/ SearchAny(NotNameWords, name))

\* line 65 does not skip the element
LikelyName(name) == ~(Len(name) < MinNameLen \/ SearchAny(NotNameWords, name))

\* name_elem.next_siblings
next_siblings(doc, e) ==
    Ordered({j \in 1..Len(doc) : j > e /\ doc[j].parent = doc[e].parent})

\* ScanStep without the "and not school" guards: a later sibling overwrites
ScanStepOverwrite(acc, text) ==
    LET year_match  == YearMatch(text)
        major_match == MajorMatch(text)
    IN  [school |-> IF SearchAny(SchoolWords, text) THEN text ELSE acc.school,
         year   |-> IF year_match # "" THEN year_match ELSE acc.year,
         major  |-> IF major_match # "" THEN major_match ELSE acc.major]

\* ScanStep keeping the sibling's whole text for year and major too
ScanStepWholeText(acc, text) ==
    [school |-> IF acc.school = "" /\ SearchAny(SchoolWords, text) THEN text ELSE acc.school,
     year   |-> IF acc.year = "" /\ YearMatch(text) # "" THEN text ELSE acc.year,
     major  |-> IF acc.major = "" /\ MajorMatch(text) # "" THEN text ELSE acc.major]

\* one pass of the loop body, lines 75-89
ScanStep(acc, text) ==
    LET year_match  == YearMatch(text)
        major_match == MajorMatch(text)
    IN  [school |-> IF acc.school = "" /\ SearchAny(SchoolWords, text) THEN text
                    ELSE acc.school,
         year   |-> IF acc.year = "" /\ year_match # "" THEN year_match ELSE acc.year,
         major  |-> IF acc.major = "" /\ major_match # "" THEN major_match ELSE acc.major]

RECURSIVE Scan(_, _, _)
Scan(doc, sibs, acc) ==
    IF sibs = <<>> THEN acc
    ELSE Scan(doc, Tail(sibs), ScanStep(acc, strip(get_text(doc, Head(sibs)))))

Fieldnames ==
    <<"Student/Team Name", "School", "Year", "Major", "Competition", "Venture Name", "Email">>

\* the dict literal of lines 93-101
Prospect(name, school, year, major, competition) ==
    [k \in {Fieldnames[n] : n \in 1..Len(Fieldnames)} |->
        CASE k = "Student/Team Name" -> name
          [] k = "School"            -> school
          [] k = "Year"              -> year
          [] k = "Major"             -> major
          [] k = "Competition"       -> competition
          [] OTHER                   -> ""]

\* the record made for name element e, lines 62-101
ProspectOf(doc, e, competition_name) ==
    LET f == Scan(doc, next_siblings(doc, e), [school |-> "", year |-> "", major |-> ""])
    IN  Prospect(NameOf(doc, e), f.school, f.year, f.major, competition_name)

\* the name elements of one section that lines 61-66 let through
AcceptedNames(doc, section) ==
    SelectSeq(names(doc, section), LAMBDA e : LikelyName(NameOf(doc, e)))

RECURSIVE Reverse(_)
Reverse(q) == IF q = <<>> THEN <<>> ELSE Reverse(Tail(q)) \o <<Head(q)>>

\* NameElems when each record is put at the front of the list, not at its end
NameElemsFrontInsert(h) ==
    IF Falsy(h) THEN <<>>
    ELSE LET ws == winner_sections(h.doc)
         IN  Reverse(Flatten([s \in 1..Len(ws) |-> AcceptedNames(h.doc, ws[s])]))

\* the name elements records are made from, in the order the loops of lines 57-101 meet them
NameElems(h) ==
    IF Falsy(h) THEN <<>>
    ELSE LET ws == winner_sections(h.doc)
         IN  Flatten([s \in 1..Len(ws) |-> AcceptedNames(h.doc, ws[s])])

extract_basic_info(h, competition_name) ==
    LET es == NameElems(h)
    IN  [k \in 1..Len(es) |-> ProspectOf(h.doc, es[k], competition_name)]

(***************************************************************************)
(* Files.  A CSV file is absent, or the sequence of its rows, each row the *)
(* sequence of its cells.                                                  *)
(***************************************************************************)
Absent == [exists |-> FALSE, rows |-> <<>>]
File(rows) == [exists |-> TRUE, rows |-> rows]

\* the parts of the state an operation leaves alone start out like this
XIdle ==
    /\ html = NoContent /\ xcomp = "" /\ prospects = <<>> /\ emitted = <<>> /\ xpc = "idle"
SIdle == ledger = Absent /\ calls = <<>> /\ ledgerLog = <<>>
LIdle == fs = Absent /\ readResult = [state |-> "idle", error |-> "", value |-> <<>>]
MIdle ==
    /\ web = {} /\ tableRead = Absent /\ competitions = <<>> /\ idx = 0
    /\ fetchLog = <<>> /\ pc = "idle"

(***************************************************************************)
(* save_prospects_to_csv                                                   *)
(***************************************************************************)
\* csv.DictWriter.writerow: the values in the order of fieldnames
RowOf(prospect) == [n \in 1..Len(Fieldnames) |-> prospect[Fieldnames[n]]]

RowsOf(ps) == [k \in 1..Len(ps) |-> RowOf(ps[k])]

\* save_prospects_to_csv writing the header on every call
save_prospects_to_csvAlwaysHeader(file, ps) ==
    IF ps = <<>> THEN file
    ELSE File(file.rows \o <<Fieldnames>> \o RowsOf(ps))

\* the output file after save_prospects_to_csv(ps), lines 105-123
save_prospects_to_csv(file, ps) ==
    IF ps = <<>> THEN file
    ELSE File((IF file.exists THEN file.rows ELSE <<Fieldnames>>) \o RowsOf(ps))

(***************************************************************************)
(* read_competition_csv.  A row dict maps each key to <<cell>>, or to <<>>  *)
(* for None; csv.DictReader files the cells beyond the header under the    *)
(* key None, written RestKey here, as a list.                              *)
(***************************************************************************)
RestKey == "(None)"
None == <<>>
Cell(s) == <<s>>
\* what csv.writer writes for a value: None as the empty string
Text(v) == IF v = None THEN "" ELSE v[1]

Greatest(S) == CHOOSE j \in S : \A k \in S : j >= k

\* RowDict pairing the cells with the three columns by position, not by the header
RowDictByPosition(fieldnames, row) ==
    LET fixed == <<"competition_name", "url", "last_checked">>
        keys  == {fixed[i] : i \in 1..Len(fixed)}
                 \cup (IF Len(row) > Len(fixed) THEN {RestKey} ELSE {})
    IN  [k \in keys |->
            IF k = RestKey THEN SubSeq(row, Len(fixed) + 1, Len(row))
            ELSE LET at == CHOOSE i \in 1..Len(fixed) : fixed[i] = k
                 IN  IF at > Len(row) THEN None ELSE Cell(row[at])]

\* csv.DictReader.__next__: dict(zip(fieldnames, row)), restkey, restval
RowDict(fieldnames, row) ==
    LET cols == {fieldnames[i] : i \in 1..Len(fieldnames)}
        keys == cols \cup (IF Len(row) > Len(fieldnames) THEN {RestKey} ELSE {})
    IN  [k \in keys |->
            IF k \notin cols THEN SubSeq(row, Len(fieldnames) + 1, Len(row))
            ELSE LET at == Greatest({i \in 1..Len(fieldnames) : fieldnames[i] = k})
                 IN  IF at > Len(row) THEN None ELSE Cell(row[at])]

\* the rows csv.DictReader yields: the first row is the header, blank rows are skipped
RECURSIVE DictRows(_, _)
DictRows(fieldnames, rows) ==
    IF rows = <<>> THEN <<>>
    ELSE (IF Head(rows) = <<>> THEN <<>> ELSE <<RowDict(fieldnames, Head(rows))>>)
         \o DictRows(fieldnames, Tail(rows))

Raised(e) == [state |-> "raised", error |-> e, value |-> <<>>]
Returned(v) == [state |-> "returned", error |-> "", value |-> v]

\* read_competition_csv giving [] for a file that is not there
read_competition_csvSoft(file) ==
    IF ~file.exists \/ file.rows = <<>> THEN Returned(<<>>)
    ELSE Returned(DictRows(Head(file.rows), Tail(file.rows)))

\* read_competition_csv, lines 8-15: open() raises when the file is not there
read_competition_csv(file) ==
    IF ~file.exists THEN Raised("FileNotFoundError")
    ELSE IF file.rows = <<>> THEN Returned(<<>>)
    ELSE Returned(DictRows(Head(file.rows), Tail(file.rows)))

(***************************************************************************)
(* check_competition_website.  A response of the site is an HTTP status    *)
(* with a body, or an exception raised by requests.get.                    *)
(***************************************************************************)
Response(status, body) == [kind |-> "response", status |-> status, text |-> body]
Exception(e) == [kind |-> e, status |-> 0, text |-> NoContent]
StatusOK == 200

\* check_competition_website returning the body whatever the status
check_competition_websiteAnyStatus(o) ==
    IF o.kind = "response" THEN o.text ELSE NoContent

\* lines 17-29: the body of a 200 response, None otherwise
check_competition_website(o) ==
    IF o.kind = "response" /\ o.status = StatusOK THEN o.text ELSE NoContent

(***************************************************************************)
(* main                                                                    *)
(***************************************************************************)
TableFieldnames == <<"competition_name", "url", "last_checked">>

\* datetime.datetime.now().strftime('%Y-%m-%d')
Today == "2026-11-04"

\* lines 129-134
ExampleTable ==
    << TableFieldnames,
       <<"Rice Business Plan Competition", "https://rbpc.rice.edu/winners", "">>,
       <<"MIT $100K", "https://www.mit100k.org/winners", "">> >>

\* lines 128-135: the table is created when it is not there
Bootstrap(file) == IF file.exists THEN file ELSE File(ExampleTable)

\* d with d[k] = v, whether or not d had the key
Assign(d, k, v) == [x \in DOMAIN d \cup {k} |-> IF x = k THEN v ELSE d[x]]

\* the row dict after the loop body with line 152 outside "if html_content"
ProcessedAlways(competition, h) == Assign(competition, "last_checked", Cell(Today))

\* the row dict after the loop body, lines 143-152
Processed(competition, h) ==
    IF Falsy(h) THEN competition ELSE Assign(competition, "last_checked", Cell(Today))

\* requests.get(None) raises MissingSchema; any other url is up to the site
Outcomes(url) == IF url = None THEN {Exception("MissingSchema")} ELSE web

\* lines 137-138: bootstrap and load
MainStart ==
    /\ pc = "start"
    /\ fs' = Bootstrap(fs)
    /\ tableRead' = Bootstrap(fs)
    /\ competitions' = read_competition_csv(Bootstrap(fs)).value
    /\ pc' = "loop"
    /\ UNCHANGED <<web, idx, fetchLog, ledger, calls, ledgerLog, readResult, xvars>>

\* one pass of the loop of lines 139-152
MainIterate ==
    /\ pc = "loop"
    /\ idx < Len(competitions)
    /\ LET competition == competitions[idx + 1]
       IN  IF {"competition_name", "url"} \subseteq DOMAIN competition
           THEN \E o \in Outcomes(competition["url"]) :
                  LET html_content == check_competition_website(o)
                      found == IF Falsy(html_content) THEN <<>>
                               ELSE extract_basic_info(html_content,
                                                       Text(competition["competition_name"]))
                  IN  /\ ledger' = IF found # <<>> THEN save_prospects_to_csv(ledger, found)
                                    ELSE ledger
                      /\ competitions' =
                            [competitions EXCEPT ![idx + 1] = Processed(competition, html_content)]
                      /\ idx' = idx + 1
                      /\ fetchLog' = Append(fetchLog,
                            [outcome |-> o, found |-> found, elems |-> NameElems(html_content),
                             before |-> ledger, after |-> ledger'])
                      /\ pc' = "loop"
           ELSE /\ pc' = "KeyError"
                /\ UNCHANGED <<ledger, competitions, idx, fetchLog>>
    /\ UNCHANGED <<web, fs, tableRead, calls, ledgerLog, readResult, xvars>>

\* csv.DictWriter._dict_to_list accepts the row: no key outside fieldnames
Writable(d) == DOMAIN d \subseteq {TableFieldnames[i] : i \in 1..Len(TableFieldnames)}

\* the cells DictWriter writes for a row dict: d.get(key, '') per fieldname
TableRow(d) ==
    [i \in 1..Len(TableFieldnames) |->
        IF TableFieldnames[i] \in DOMAIN d THEN Text(d[TableFieldnames[i]]) ELSE ""]

\* lines 155-158: the table is truncated and written again; a row with a key
\* outside fieldnames raises ValueError after the rows before it were written
MainRewrite ==
    /\ pc = "loop"
    /\ idx = Len(competitions)
    /\ LET bad  == {i \in 1..Len(competitions) : ~Writable(competitions[i])}
           upto == IF bad = {} THEN Len(competitions) ELSE Least(bad) - 1
       IN  /\ fs' = File(<<TableFieldnames>> \o [i \in 1..upto |-> TableRow(competitions[i])])
           /\ pc' = IF bad = {} THEN "done" ELSE "ValueError"
    /\ UNCHANGED <<web, tableRead, competitions, idx, fetchLog, svars, readResult, xvars>>

(***************************************************************************)
(* save_prospects_to_csv and read_competition_csv as operations            *)
(***************************************************************************)
MaxCalls == 3
MaxBatch == 2

SinkProspects ==
    { Prospect("Jane Doe", "Jane University", "sophomore", "Biology", "MIT $100K"),
      Prospect("Team Rocket", "", "", "", "Rice Business Plan Competition") }

SaveCall ==
    /\ Len(calls) < MaxCalls
    /\ \E ps \in UNION {[1..n -> SinkProspects] : n \in 0..MaxBatch} :
          /\ ledger' = save_prospects_to_csv(ledger, ps)
          /\ calls' = Append(calls, ps)
          /\ ledgerLog' = Append(ledgerLog, ledger')
    /\ UNCHANGED <<xvars, lvars, mvars>>

InitSink == SIdle /\ XIdle /\ LIdle /\ MIdle
NextSink == SaveCall
SpecSink == InitSink /\ [][NextSink]_vars

LoaderCall ==
    /\ readResult.state = "idle"
    /\ readResult' = read_competition_csv(fs)
    /\ UNCHANGED <<fs, xvars, svars, mvars>>

(***************************************************************************)
(* Source tables: a header and up to MaxRows rows.  The headers are the    *)
(* one main writes, the same columns in another order, one with a fourth   *)
(* column, one without last_checked and one without url.  A row has a cell *)
(* for each column of its header, or lacks the last one, or has one more;  *)
(* a blank line is the empty row.                                          *)
(***************************************************************************)
MaxRows == 2

Headers ==
    { TableFieldnames,
      <<"url", "competition_name", "last_checked">>,
      <<"competition_name", "url", "last_checked", "notes">>,
      <<"competition_name", "url">>,
      <<"competition_name", "last_checked">> }

Entries ==
    { [competition_name |-> "Rice Business Plan Competition",
       url |-> "https://rbpc.rice.edu/winners", last_checked |-> "2020-01-01", notes |-> "n"],
      [competition_name |-> "Rice Business Plan Competition",
       url |-> "https://rbpc.rice.edu/winners", last_checked |-> "", notes |-> "n"],
      [competition_name |-> "MIT $100K",
       url |-> "https://www.mit100k.org/winners", last_checked |-> "2020-01-01", notes |-> ""] }

CellFor(entry, column) ==
    CASE column = "competition_name" -> entry.competition_name
      [] column = "url"              -> entry.url
      [] column = "last_checked"     -> entry.last_checked
      [] OTHER                       -> entry.notes

FullRow(header, entry) == [i \in 1..Len(header) |-> CellFor(entry, header[i])]

RowsFor(header) ==
    {FullRow(header, e) : e \in Entries}
    \cup {SubSeq(FullRow(header, e), 1, Len(header) - 1) : e \in {x \in Entries : x.notes = ""}}
    \cup {Append(FullRow(header, e), "extra") : e \in {x \in Entries : x.last_checked = ""}}
    \cup {<<>>}

Tables ==
    {<<>>} \cup
    UNION { { <<header>> \o rows : rows \in UNION {[1..n -> RowsFor(header)] : n \in 0..MaxRows} } :
            header \in Headers }

InitLoader ==
    /\ fs \in {Absent} \cup {File(t) : t \in Tables}
    /\ readResult = [state |-> "idle", error |-> "", value |-> <<>>]
    /\ XIdle /\ SIdle /\ MIdle

NextLoader == LoaderCall
SpecLoader == InitLoader /\ [][NextLoader]_vars

(***************************************************************************)
(* The sites: pages with and without winners, an empty body, an error      *)
(* page that shows winners, and a request that times out.                  *)
(***************************************************************************)
PlainPage ==
    << Tag("div", "content", "", 0), Tag("h3", "", "Ann Lee", 1),
       Tag("p", "", "State College", 1) >>

WinnersPage ==
    << Tag("div", "winners", "", 0),
       Tag("h3", "", "Jane Doe", 1), Tag("p", "", "Jane University", 1),
       Tag("p", "", "sophomore", 1), Tag("p", "", "majoring in Biology", 1),
       Tag("div", "team", "", 1),
       Tag("strong", "", "Team Rocket", 6), Str(" Rice University, 2024 ", 6) >>

NestedPage ==
    << Tag("section", "awards", "", 0),
       Tag("div", "prize", "", 1), Tag("h4", "", "Bob Ray", 2),
       Tag("h4", "", "Cy Young", 1) >>

MainWeb ==
    { Exception("Timeout"),
      Response(404, Markup(WinnersPage)),
      Response(StatusOK, Markup(<<>>)),
      Response(StatusOK, Markup(PlainPage)),
      Response(StatusOK, Markup(WinnersPage)) }

InitMain ==
    /\ fs \in {Absent} \cup {File(t) : t \in Tables}
    /\ web = MainWeb
    /\ tableRead = Absent /\ competitions = <<>> /\ idx = 0 /\ fetchLog = <<>>
    /\ pc = "start"
    /\ readResult = [state |-> "idle", error |-> "", value |-> <<>>]
    /\ XIdle /\ SIdle

NextMain == MainStart \/ MainIterate \/ MainRewrite
SpecMain == InitMain /\ [][NextMain]_vars

(***************************************************************************)
(* extract_basic_info as an operation: called on a page, it returns.       *)
(***************************************************************************)
ExtractCall ==
    /\ xpc = "call"
    /\ prospects' = extract_basic_info(html, xcomp)
    /\ emitted' = NameElems(html)
    /\ xpc' = "returned"
    /\ UNCHANGED <<html, xcomp, svars, lvars, mvars>>

CompetitionNames == {"Rice Business Plan Competition", "MIT $100K"}

\* Pages for the sibling scan: a winner region holding one name and, after
\* it, up to MaxSibs siblings; an element before the name is no sibling
\* that follows it.
MaxSibs == 3

SiblingNodes ==
    { Tag("p", "", "Jane University", 1),
      Tag("p", "", "sophomore", 1),
      Tag("p", "", "majoring in Biology", 1),
      Tag("span", "", "Rice University, Class of 2024", 1),
      Tag("p", "", "Senior, Physics major", 1),
      Tag("p", "", "Team lead", 1),
      Str("\n", 1),
      Str(" at Lone Star College \n", 1) }

LeadNodes == { <<>>, <<Tag("p", "", "Old School, junior, Art major", 1)>> }

FieldDocs ==
    { <<Tag("div", "winners", "", 0)>> \o lead \o <<Tag("h3", "", "Jane Doe", 1)>> \o sibs :
        lead \in LeadNodes,
        sibs \in UNION {[1..n -> SiblingNodes] : n \in 0..MaxSibs} }

InitFields ==
    /\ html \in {Markup(d) : d \in FieldDocs}
    /\ xcomp \in CompetitionNames
    /\ prospects = <<>> /\ emitted = <<>> /\ xpc = "call"
    /\ SIdle /\ LIdle /\ MIdle

NextFields == ExtractCall

SpecFields == InitFields /\ [][NextFields]_vars

(***************************************************************************)
(* Claims about the sibling scan                                           *)
(***************************************************************************)
\* the stripped texts of the siblings that follow the element of record k
SiblingTexts(k) ==
    LET sibs == next_siblings(html.doc, emitted[k])
    IN  [n \in 1..Len(sibs) |-> strip(get_text(html.doc, sibs[n]))]

\* C7: each of school, year and major comes from the first following sibling
\* that matches the field's pattern, whatever the other fields did, and from
\* no later one; with no matching sibling the field is empty.
ThmC7_FirstMatchPerField ==
    xpc = "returned" =>
        \A k \in 1..Len(prospects) :
            LET texts    == SiblingTexts(k)
                schoolAt == {n \in 1..Len(texts) : SearchAny(SchoolWords, texts[n])}
                yearAt   == {n \in 1..Len(texts) : YearMatch(texts[n]) # ""}
                majorAt  == {n \in 1..Len(texts) : MajorMatch(texts[n]) # ""}
            IN  /\ prospects[k]["School"] =
                      IF schoolAt = {} THEN "" ELSE texts[Least(schoolAt)]
                /\ prospects[k]["Year"] =
                      IF yearAt = {} THEN "" ELSE YearMatch(texts[Least(yearAt)])
                /\ prospects[k]["Major"] =
                      IF majorAt = {} THEN "" ELSE MajorMatch(texts[Least(majorAt)])

\* two different siblings name a university; the first is the school, and the
\* year is found in a sibling after the one that gave the school
WitC7_TwoUniversities ==
    /\ xpc = "returned"
    /\ Len(prospects) = 1
    /\ LET texts == SiblingTexts(1)
       IN  /\ Len(texts) = 3
           /\ SearchAny({"university"}, texts[1])
           /\ SearchAny({"university"}, texts[2])
           /\ texts[1] # texts[2]
           /\ prospects[1]["School"] = texts[1]
           /\ YearMatch(texts[1]) = ""
           /\ prospects[1]["Year"] # ""

\* sub occurs in text as it stands
Occurs(sub, text) == \E i \in 1..Len(text) : LitAt(text, i, sub)
\* sub occurs in text, ignoring case
OccursNoCase(sub, text) == Occurs(LowerStr(sub), LowerStr(text))

IsYearToken(y) ==
    \/ LowerStr(y) \in {YearNouns[n] : n \in 1..Len(YearNouns)}
    \/ Len(y) = YearDigits /\ \A i \in 1..Len(y) : IsDigit(Ch(y, i))

IsOneWord(w) == Len(w) > 0 /\ \A i \in 1..Len(w) : IsWord(Ch(w, i))

SpecExample == <<"Jane University", "sophomore", "majoring in Biology">>

MaxNodes == 3
MaxNames == 6

TreeTemplates ==
    { [name |-> "div", class |-> "Winners", text |-> ""],
      [name |-> "div", class |-> "", text |-> ""],
      [name |-> "h2", class |-> "", text |-> "Award list"],
      [name |-> "h3", class |-> "", text |-> "Ann"],
      [name |-> "b", class |-> "", text |-> "Al"],
      [name |-> "strong", class |-> "", text |-> " Top Prize"],
      [name |-> "h1", class |-> "", text |-> ""] }

RECURSIVE PathUp(_, _)
PathUp(doc, i) == IF i = 0 THEN {} ELSE {i} \cup PathUp(doc, doc[i].parent)

\* where the next node of a page in document order can hang: at the top, or
\* under a tag that is still open and holds tags, not text
OpenParents(doc) ==
    {0} \cup {p \in PathUp(doc, Len(doc)) : doc[p].kind = "tag" /\ doc[p].text = ""}

RECURSIVE TreeDocsOfLen(_, _)
TreeDocsOfLen(templates, n) ==
    IF n = 0 THEN {<<>>}
    ELSE UNION { { Append(d, Tag(t.name, t.class, t.text, p)) :
                     t \in templates, p \in OpenParents(d) } :
                 d \in TreeDocsOfLen(templates, n - 1) }

TreeDocs == UNION {TreeDocsOfLen(TreeTemplates, n) : n \in 0..MaxNodes}

NameNodes ==
    { Tag("h3", "", "Ann", 1), Tag("b", "", "Al", 1), Tag("h4", "", "About us", 1) }

ListDocs ==
    { <<Tag("section", "prize-list", "", 0)>> \o ns :
        ns \in UNION {[1..n -> NameNodes] : n \in (MaxNames - 1)..MaxNames} }

InitExtract ==
    /\ html \in {NoContent} \cup {Markup(d) : d \in TreeDocs \cup ListDocs}
    /\ xcomp = "MIT $100K"
    /\ prospects = <<>> /\ emitted = <<>> /\ xpc = "call"
    /\ SIdle /\ LIdle /\ MIdle

NextExtract == ExtractCall

SpecExtract == InitExtract /\ [][NextExtract]_vars

\* no div, section or article has a class with winner, award or prize in it,
\* and no h1-h4 heading has such a word in its text
LacksWinnerMarks(h) ==
    \A i \in 1..Len(h.doc) :
        LET n == h.doc[i]
        IN  /\ n.name \in SectionTags =>
                 \A w \in WinnerWords : ~OccursNoCase(w, n.class)
            /\ n.name \in HeadingTags =>
                 \A w \in WinnerWords : ~OccursNoCase(w, get_text(h.doc, i))

\* C6: on an input with no winner-like container and no winner-like heading
\* (absent or empty content included) extract_basic_info returns the empty list.
ThmC6_NoMarksNoProspects ==
    (xpc = "returned" /\ LacksWinnerMarks(html)) => prospects = <<>>

\* a page with a name element inside a plain container gives nothing
WitC6_PlainPage ==
    /\ xpc = "returned"
    /\ LacksWinnerMarks(html)
    /\ \E i \in 1..Len(html.doc) :
          /\ html.doc[i].name = "h3"
          /\ html.doc[i].parent # 0
          /\ html.doc[html.doc[i].parent].name = "div"
    /\ prospects = <<>>

\* element e is one of the first NameLimit name-bearing elements of section s
AmongFirstNames(doc, e, s) ==
    /\ doc[e].kind = "tag"
    /\ doc[e].name \in NameTags
    /\ Inside(doc, e, s)
    /\ Cardinality({j \in 1..(e - 1) :
            doc[j].kind = "tag" /\ doc[j].name \in NameTags /\ Inside(doc, j, s)}) < NameLimit

\* the test of the claim: 3 characters or more once trimmed, and none of the four words
PassesNameTest(doc, e) ==
    LET t == strip(get_text(doc, e))
    IN  Len(t) >= 3 /\ \A w \in {"winner", "award", "prize", "about"} : ~OccursNoCase(w, t)

\* C9: a name-bearing element among the first 5 of a winner region gives a
\* record, named by its trimmed text, exactly when that text has 3 or more
\* characters and holds none of winner, award, prize, about: once for each
\* winner region it is among the first 5 of, and never otherwise.
ThmC9_NameFilter ==
    xpc = "returned" =>
        /\ Len(emitted) = Len(prospects)
        /\ \A k \in 1..Len(prospects) :
              prospects[k]["Student/Team Name"] = strip(get_text(html.doc, emitted[k]))
        /\ \A e \in 1..Len(html.doc) :
              LET ws   == winner_sections(html.doc)
                  from == {s \in 1..Len(ws) : AmongFirstNames(html.doc, e, ws[s])}
                  made == {k \in 1..Len(emitted) : emitted[k] = e}
              IN  Cardinality(made) =
                      IF PassesNameTest(html.doc, e) THEN Cardinality(from) ELSE 0

\* a region with a 2-character name, left out, and a 3-character name, kept
WitC9_TwoAndThreeChars ==
    /\ xpc = "returned"
    /\ \E s \in 1..Len(html.doc), a \in 1..Len(html.doc), b \in 1..Len(html.doc) :
          /\ s \in {winner_sections(html.doc)[n] : n \in 1..Len(winner_sections(html.doc))}
          /\ AmongFirstNames(html.doc, a, s)
          /\ AmongFirstNames(html.doc, b, s)
          /\ Len(strip(get_text(html.doc, a))) = 2
          /\ Len(strip(get_text(html.doc, b))) = 3
          /\ \A k \in 1..Len(emitted) : emitted[k] # a
          /\ \E k \in 1..Len(emitted) : emitted[k] = b

(***************************************************************************)
(* Claims about the sink                                                   *)
(***************************************************************************)
IsPrefix(a, b) == Len(a) <= Len(b) /\ SubSeq(b, 1, Len(a)) = a

\* the row the claim expects for a prospect: its seven values in column order
ExpectedRow(p) ==
    << p["Student/Team Name"], p["School"], p["Year"], p["Major"], p["Competition"],
       p["Venture Name"], p["Email"] >>

ExpectedRows(batches) ==
    Flatten([n \in 1..Len(batches) |->
                [k \in 1..Len(batches[n]) |-> ExpectedRow(batches[n][k])]])

HeaderRows(file) == {i \in 1..Len(file.rows) : file.rows[i] = Fieldnames}

\* C1: from an absent ledger, after any calls of save_prospects_to_csv the
\* ledger, if it exists, has exactly one header row, the first; its data rows
\* are the rows of the calls in call order; no call changes or removes a row
\* an earlier call wrote, and a call with an empty list changes nothing.
ThmC1_LedgerAppendOnly ==
    /\ ledger.exists =>
          /\ HeaderRows(ledger) = {1}
          /\ Tail(ledger.rows) = ExpectedRows(calls)
    /\ ~ledger.exists => \A n \in 1..Len(calls) : calls[n] = <<>>
    /\ \A n \in 1..Len(ledgerLog) :
          LET before == IF n = 1 THEN Absent ELSE ledgerLog[n - 1]
          IN  /\ IsPrefix(before.rows, ledgerLog[n].rows)
              /\ before.exists => ledgerLog[n].exists
              /\ calls[n] = <<>> => ledgerLog[n] = before

\* two writing calls with an empty call between them
WitC1_TwoRuns ==
    /\ Len(calls) = 3
    /\ calls[1] # <<>> /\ calls[2] = <<>> /\ calls[3] # <<>>
    /\ calls[1] # calls[3]
    /\ Len(ledger.rows) = 1 + Len(calls[1]) + Len(calls[3])

(***************************************************************************)
(* Claims about the loader                                                 *)
(***************************************************************************)
\* C10 as the spec has it: a missing file gives an empty sequence
OrigC10_MissingFileGivesEmpty ==
    (readResult.state # "idle" /\ ~fs.exists) => readResult = Returned(<<>>)

\* C10, amended: read_competition_csv called on a file that does not exist
\* raises FileNotFoundError to its caller; on a file that exists it returns.
ThmC10_MissingFileRaises ==
    readResult.state # "idle" =>
        IF fs.exists THEN readResult.state = "returned"
        ELSE readResult.state = "raised" /\ readResult.error = "FileNotFoundError"

WitC10_MissingFile ==
    ~fs.exists /\ readResult.state = "raised"

(***************************************************************************)
(* Claims about main                                                       *)
(***************************************************************************)
\* the fetch ended in a non-200 status, a timeout or another exception
Failed(o) == o.kind # "response" \/ o.status # 200

\* the fetch gave a 200 response with a body that is not empty
GotContent(o) == o.kind = "response" /\ o.status = 200 /\ o.text.doc # <<>>

\* the rows of a table file below its header, blank lines left out
DataRows(file) ==
    IF file.rows = <<>> THEN <<>> ELSE SelectSeq(Tail(file.rows), LAMBDA r : r # <<>>)

Columns(file) ==
    IF file.rows = <<>> THEN {} ELSE {file.rows[1][i] : i \in 1..Len(file.rows[1])}

\* the cell of data row i in the named column, "" when the row has none
ReadCell(file, i, column) ==
    LET at == {p \in 1..Len(file.rows[1]) : file.rows[1][p] = column}
    IN  IF at = {} \/ Greatest(at) > Len(DataRows(file)[i]) THEN ""
        ELSE DataRows(file)[i][Greatest(at)]

\* C2: a row whose fetch ends in a non-200 status, a timeout or another
\* exception adds nothing to the ledger, check_competition_website hands
\* main None for it, and main goes on: once a row has been fetched no
\* exception ends the loop, and when the loop is over every row was fetched.
ThmC2_FailedFetchSkipsRow ==
    /\ \A n \in 1..Len(fetchLog) :
          Failed(fetchLog[n].outcome) =>
              /\ check_competition_website(fetchLog[n].outcome) = NoContent
              /\ fetchLog[n].found = <<>>
              /\ fetchLog[n].after = fetchLog[n].before
    /\ Len(fetchLog) = idx
    /\ pc = "KeyError" => fetchLog = <<>>
    /\ pc \in {"done", "ValueError"} => Len(fetchLog) = Len(DataRows(tableRead))

\* a 404 for the first row, and the second row still gives prospects
WitC2_FailureThenProspects ==
    /\ pc = "done"
    /\ Len(fetchLog) = 2
    /\ fetchLog[1].outcome.kind = "response" /\ fetchLog[1].outcome.status = 404
    /\ fetchLog[1].after = Absent
    /\ fetchLog[2].found # <<>>
    /\ ledger.rows = <<Fieldnames>> \o ExpectedRows(<<fetchLog[2].found>>)

LastCheckedColumn == 3

\* C3 as the spec has it: every row the loop went over carries today's date
OrigC3_EveryRowDated ==
    pc = "done" =>
        \A i \in 1..Len(fetchLog) : fs.rows[i + 1][LastCheckedColumn] = Today

\* C3, amended: when a run of main completes, the rewritten table carries
\* today's date in last_checked for every row whose fetch gave a 200 response
\* with a non-empty body, whatever the extraction found; every other row
\* (failed fetch, empty body) keeps the last_checked it was read with.
ThmC3_FetchedRowsDated ==
    pc = "done" =>
        /\ Len(fs.rows) = Len(fetchLog) + 1
        /\ \A i \in 1..Len(fetchLog) :
              fs.rows[i + 1][LastCheckedColumn] =
                  IF GotContent(fetchLog[i].outcome) THEN Today
                  ELSE ReadCell(tableRead, i, "last_checked")

\* one row fetched without prospects and dated, one row timed out and left as it was
WitC3_DatedAndKept ==
    /\ pc = "done"
    /\ Len(fetchLog) = 2
    /\ GotContent(fetchLog[1].outcome) /\ fetchLog[1].found = <<>>
    /\ fetchLog[2].outcome.kind = "Timeout"
    /\ fs.rows[2][LastCheckedColumn] = Today
    /\ fs.rows[3][LastCheckedColumn] = "2020-01-01"

\* the written table has the columns of the table read, its rows in the
\* same order, and the same competition_name and url in every row
TablePreserved ==
    /\ Columns(fs) = Columns(tableRead)
    /\ Len(DataRows(fs)) = Len(DataRows(tableRead))
    /\ \A i \in 1..Len(DataRows(fs)) :
          \A c \in {"competition_name", "url"} :
              ReadCell(fs, i, c) = ReadCell(tableRead, i, c)

\* C4 as the spec has it: for every input table (here: every one that has
\* a header row at all)
OrigC4_AnyTablePreserved ==
    (pc = "done" /\ tableRead.rows # <<>>) => TablePreserved

\* the header is the three columns main writes, in some order, and no row
\* has more cells than the header
ThreeColumnTable(file) ==
    /\ file.rows # <<>>
    /\ Len(file.rows[1]) = Len(TableFieldnames)
    /\ Columns(file) = {TableFieldnames[i] : i \in 1..Len(TableFieldnames)}
    /\ \A i \in 1..Len(DataRows(file)) : Len(DataRows(file)[i]) <= Len(TableFieldnames)

\* C4, amended: for every input table whose header is exactly the columns
\* competition_name, url and last_checked, in any order, and no row of which
\* has more cells than the header, main runs to its end and the rewrite keeps
\* the row order, the column set and every competition_name and url.
ThmC4_ThreeColumnTablePreserved ==
    (pc # "start" /\ ThreeColumnTable(tableRead)) =>
        /\ pc \in {"loop", "done"}
        /\ pc = "done" => TablePreserved

\* a table with url as its first column, two different rows, one of them dated anew
WitC4_ReorderedColumns ==
    /\ pc = "done"
    /\ tableRead.rows # <<>>
    /\ tableRead.rows[1] = <<"url", "competition_name", "last_checked">>
    /\ Len(DataRows(tableRead)) = 2
    /\ ReadCell(tableRead, 1, "competition_name") # ReadCell(tableRead, 2, "competition_name")
    /\ TablePreserved
    /\ ReadCell(fs, 1, "last_checked") # ReadCell(tableRead, 1, "last_checked")

(***************************************************************************)
(* A run of main over two competitions whose sites answer with any page of *)
(* up to RunNodes nodes built from winner containers and names, or with    *)
(* one of the pages whose regions are found through their headings.        *)
(***************************************************************************)
RunNodes == 3

RunTemplates ==
    { [name |-> "div", class |-> "winners", text |-> ""],
      [name |-> "h3", class |-> "", text |-> "Ann Lee"] }

\* two headings in one container: the container is found twice
TwoHeadingsPage ==
    << Tag("div", "", "", 0), Tag("h2", "", "Winners", 1),
       Tag("h3", "", "Prize list", 1), Tag("b", "", "Ann Lee", 1) >>

\* a heading in a container inside the container of another heading
HeadingInsidePage ==
    << Tag("article", "", "", 0), Tag("h1", "", "Our Winners", 1),
       Tag("b", "", "Ann Lee", 1), Tag("div", "", "", 1),
       Tag("h2", "", "2024 awards", 4), Tag("b", "", "Bob Ray", 4) >>

\* two containers found through their headings, side by side
HeadingsApartPage ==
    << Tag("div", "", "", 0), Tag("h2", "", "First prize", 1), Tag("b", "", "Ann Lee", 1),
       Tag("div", "", "", 0), Tag("h2", "", "Second prize", 4), Tag("b", "", "Bob Ray", 4) >>

RunDocs ==
    UNION {TreeDocsOfLen(RunTemplates, n) : n \in 1..RunNodes}
    \cup {WinnersPage, NestedPage, TwoHeadingsPage, HeadingInsidePage, HeadingsApartPage}

RunWeb ==
    {Response(404, Markup(WinnersPage))} \cup {Response(StatusOK, Markup(d)) : d \in RunDocs}

EarlierLedger ==
    File(<<Fieldnames, <<"Old Team", "", "", "", "MIT $100K", "", "">> >>)

InitRun ==
    /\ fs \in {Absent, File(<<TableFieldnames, ExampleTable[3], ExampleTable[2]>>)}
    /\ ledger = IF fs.exists THEN EarlierLedger ELSE Absent
    /\ web = RunWeb
    /\ tableRead = Absent /\ competitions = <<>> /\ idx = 0 /\ fetchLog = <<>>
    /\ pc = "start"
    /\ calls = <<>> /\ ledgerLog = <<>>
    /\ readResult = [state |-> "idle", error |-> "", value |-> <<>>]
    /\ XIdle

NextRun == MainStart \/ MainIterate \/ MainRewrite
SpecRun == InitRun /\ [][NextRun]_vars

\* the ledger as the run found it
LedgerAtStart == IF fetchLog = <<>> THEN ledger ELSE fetchLog[1].before

\* the rows the run has added to the ledger, the header it may have written left out
RowsAdded ==
    IF LedgerAtStart.exists THEN SubSeq(ledger.rows, Len(LedgerAtStart.rows) + 1, Len(ledger.rows))
    ELSE IF ledger.exists THEN Tail(ledger.rows)
    ELSE <<>>

\* the rows of an earlier competition come before those of a later one, and
\* the rows of competition n are the records of its name elements, in order
CompetitionOrder ==
    /\ RowsAdded = ExpectedRows([n \in 1..Len(fetchLog) |-> fetchLog[n].found])
    /\ \A n \in 1..Len(fetchLog) :
          /\ Len(fetchLog[n].found) = Len(fetchLog[n].elems)
          /\ \A k \in 1..Len(fetchLog[n].found) :
                /\ fetchLog[n].found[k]["Competition"] =
                      ReadCell(tableRead, n, "competition_name")
                /\ fetchLog[n].found[k]["Student/Team Name"] =
                      strip(get_text(fetchLog[n].outcome.text.doc, fetchLog[n].elems[k]))

\* no winner region of the page is found twice or lies inside another one
RegionsApart(doc) ==
    LET ws == winner_sections(doc)
    IN  \A s \in 1..Len(ws), t \in 1..Len(ws) :
            s # t => ws[s] # ws[t] /\ ~Inside(doc, ws[s], ws[t])

\* C5 as the spec has it: on every page the records follow the document
\* order of their name elements (no element comes after a later one)
OrigC5_DocumentOrderOnEveryPage ==
    /\ CompetitionOrder
    /\ \A n \in 1..Len(fetchLog) :
          \A k \in 1..(Len(fetchLog[n].elems) - 1) :
              fetchLog[n].elems[k] <= fetchLog[n].elems[k + 1]

\* C5, amended: the rows of one run appear in the order of the competition
\* rows, and within one competition in the document order of their name
\* elements on every page whose winner regions are distinct and not nested
\* in one another (regions are worked through one after the other, so a name
\* inside two regions is emitted once for each).
ThmC5_OrderOfRows ==
    /\ CompetitionOrder
    /\ \A n \in 1..Len(fetchLog) :
          RegionsApart(fetchLog[n].outcome.text.doc) =>
              \A k \in 1..(Len(fetchLog[n].elems) - 1) :
                  fetchLog[n].elems[k] < fetchLog[n].elems[k + 1]

\* both competitions gave rows, the first from two regions side by side
WitC5_TwoCompetitions ==
    /\ pc = "done"
    /\ Len(fetchLog) = 2
    /\ Len(winner_sections(fetchLog[1].outcome.text.doc)) = 2
    /\ RegionsApart(fetchLog[1].outcome.text.doc)
    /\ Len(fetchLog[1].elems) = 2
    /\ fetchLog[1].elems[1] < fetchLog[1].elems[2]
    /\ fetchLog[2].found # <<>>
    /\ Len(RowsAdded) = 2 + Len(fetchLog[2].found)

====
